---- MODULE Spec2Model ----
(***************************************************************************)
(* rich-textarea: the regex renderer (createRegexRenderer) and the         *)
(* selection store (initSelectionStore) together with the textarea event   *)
(* handlers that drive it.                                                 *)
(***************************************************************************)
EXTENDS Integers, Sequences, FiniteSets, TLC

\* ---------------------------------------------------------------- bounds
MaxLen == 3          \* longest text handed to the renderer
MaxMatchers == 2     \* longest matcher list
MaxPos == 1          \* largest host selection offset
MaxCompLen == 1      \* longest composed text (CompositionEvent.data)
MaxSnapshots == 3    \* snapshot arrays allocated by one store
MaxPending == 2      \* setTimeout callbacks pending at once
MaxListeners == 2    \* mouseup listeners registered on the document at once
MaxScanLen == 2      \* longest text scanned for raw matches
MaxScanMatchers == 1 \* longest matcher list handed to createRegexRenderer

\* null of `number | null`
Null == 0 - 1000

\* the characters of the texts: pairwise distinct, so that a lost, repeated
\* or reordered slice always changes the concatenation
Alphabet == <<"a", "b", "c", "d", "e", "f", "g", "h">>

VARIABLES
    \* ---- createRegexRenderer: one call of the returned renderer
    value,          \* the text (sequence of characters)
    matchers,       \* matchers[i] = the style (decoration value) of matcher i
    ranges,         \* ranges[i] = RangeChunk[] of matcher i, as execReg yields them
    indexes,        \* the sorted breakpoints
    startToStyleMap, \* offset -> styles of the ranges starting there
    endToStyleMap,  \* offset -> styles of the ranges ending there
    global,         \* global[i] = RegExp.prototype.global of matcher i's pattern
    found,          \* found[i] = the matches of matcher i's pattern in the text,
                    \* each <<index, index + length>>, zero-length ones included
    rpc,            \* "config" | "created" | "rejected" | "loop" | "done"
    i,              \* loop index (1-based)
    prevEnd,
    activeStyles,   \* Set<StyleOrRender> in insertion order
    res,            \* output nodes, each with the slice bounds it was cut at
    \* ---- initSelectionStore + textarea handlers
    el,             \* ref.current: TRUE when the host element is attached
    rawStart,       \* el.selectionStart
    rawEnd,         \* el.selectionEnd
    compositionEvent, \* <<>> (void) or <<data>>, data the composed text
    heap,           \* snapshot arrays allocated so far, heap[id] = <<start, end>>
    prevSelection,  \* id of the array prevSelection refers to
    timers,         \* setTimeout callbacks scheduled and not yet run
    lastCall,       \* id passed to onSelectionUpdate by the current step, 0 if none
    lastEvent,      \* the handler or callback that ran last
    isComposing,    \* the platform is between compositionstart and compositionend
    keyCode,        \* nativeEvent.keyCode of the keydown handled last, 0 if none
    listeners       \* mouseup listeners of the component registered on document

rvars == <<value, matchers, global, found, ranges, indexes, startToStyleMap, endToStyleMap, rpc, i, prevEnd, activeStyles, res>>
svars == <<el, rawStart, rawEnd, compositionEvent, heap, prevSelection, timers, lastCall, lastEvent, isComposing, keyCode, listeners>>
vars == <<value, matchers, global, found, ranges, indexes, startToStyleMap, endToStyleMap,
          rpc, i, prevEnd, activeStyles, res,
          el, rawStart, rawEnd, compositionEvent, heap, prevSelection, timers, lastCall, lastEvent, isComposing, keyCode, listeners>>

\* ------------------------------------------------------------- utilities
Min(a, b) == IF a < b THEN a ELSE b
Max(a, b) == IF a > b THEN a ELSE b

\* String.prototype.slice(a, b) for 0 <= a, b
Slice(s, a, b) ==
    LET bb == Min(b, Len(s))
    IN IF a >= bb THEN <<>> ELSE SubSeq(s, a + 1, bb)

\* ============================================================ renderer ==

\* typeof styleOrRender === "function": even styles are render functions,
\* odd styles are CSSProperties objects
IsFunction(s) == s % 2 = 0

\* matchers.findIndex(([, s]) => s === x), 1-based, 0 when absent
RECURSIVE FindIndexFrom(_, _)
FindIndexFrom(x, k) ==
    IF k > Len(matchers) THEN 0
    ELSE IF matchers[k] = x THEN k
    ELSE FindIndexFrom(x, k + 1)

FindIndex(x) == FindIndexFrom(x, 1)

\* ranges.forEach(([start, end]) => ...) of the reduce callback
RECURSIVE PushRanges(_, _, _)
PushRanges(acc, rs, style) ==
    IF rs = <<>> THEN acc
    ELSE LET r == Head(rs)
             a == [indexSet |-> acc.indexSet \cup {r[1], r[2]},
                   startToStyleMap |->
                       [acc.startToStyleMap EXCEPT ![r[1]] = Append(@, style)],
                   endToStyleMap |->
                       [acc.endToStyleMap EXCEPT ![r[2]] = Append(@, style)]]
         IN PushRanges(a, Tail(rs), style)

\* matches.reduce(...): an absent map key is the empty list
RECURSIVE ReduceMatches(_, _)
ReduceMatches(acc, k) ==
    IF k > Len(matchers) THEN acc
    ELSE ReduceMatches(PushRanges(acc, ranges[k], matchers[k]), k + 1)

Reduced ==
    ReduceMatches([indexSet |-> {},
                   startToStyleMap |-> [x \in 0..Len(value) |-> <<>>],
                   endToStyleMap |-> [x \in 0..Len(value) |-> <<>>]], 1)

\* Array.from(indexSet) sorted ascending
RECURSIVE SortAsc(_)
SortAsc(S) ==
    IF S = {} THEN <<>>
    ELSE LET m == CHOOSE x \in S : \A y \in S : x <= y
         IN <<m>> \o SortAsc(S \ {m})

EndOfSkip(k) == IF k + 2 <= Len(indexes) THEN indexes[k + 2] ELSE Len(value)

EndOfMutant(k) == Len(value)

\* const end = indexes[i + 1] ?? value.length
EndOf(k) == IF k + 1 <= Len(indexes) THEN indexes[k + 1] ELSE Len(value)

HeadValueMutant(pe, start) == <<>>

\* const headValue = value.slice(prevEnd, start)
HeadValue(pe, start) == Slice(value, pe, start)

\* Set.prototype.add for each element of a list
RECURSIVE AddStyles(_, _)
AddStyles(active, list) ==
    IF list = <<>> THEN active
    ELSE LET s == Head(list)
             a == IF \E k \in 1..Len(active) : active[k] = s
                  THEN active ELSE Append(active, s)
         IN AddStyles(a, Tail(list))

DeleteStylesMutant(active, list) == active

\* Set.prototype.delete for each element of a list
RECURSIVE DeleteStyles(_, _)
DeleteStyles(active, list) ==
    IF list = <<>> THEN active
    ELSE LET s == Head(list)
         IN DeleteStyles(SelectSeq(active, LAMBDA x : x # s), Tail(list))

\* the comparator of sortedStyles: negative when a sorts before b
CompareMutant(a, b) == FindIndex(a) - FindIndex(b)

Compare(a, b) == FindIndex(b) - FindIndex(a)

\* insert x into a sorted list, after the elements it does not sort before
RECURSIVE Insert(_, _)
Insert(sorted, x) ==
    IF sorted = <<>> THEN <<x>>
    ELSE IF Compare(x, Head(sorted)) < 0 THEN <<x>> \o sorted
    ELSE <<Head(sorted)>> \o Insert(Tail(sorted), x)

\* Array.from(activeStyles).sort(comparator) (stable)
RECURSIVE SortStyles(_)
SortStyles(active) ==
    IF active = <<>> THEN <<>>
    ELSE Insert(SortStyles(SubSeq(active, 1, Len(active) - 1)),
                active[Len(active)])

KeyOfMutant(j, start) == ToString(start)

\* const key = j === 0 ? String(start) : undefined   (j 1-based here)
KeyOf(j, start) == IF j = 1 THEN ToString(start) ELSE "undefined"

\* one call of the reduceRight callback
Wrap(acc, styleOrRender, j, v, start) ==
    IF IsFunction(styleOrRender)
    THEN [tag |-> "fn", style |-> styleOrRender, key |-> KeyOf(j, start),
          value |-> v, children |-> acc]
    ELSE [tag |-> "span", style |-> styleOrRender, key |-> KeyOf(j, start),
          children |-> acc]

\* sortedStyles.reduceRight(callback, v), the elements from j down to 1
RECURSIVE ReduceRight(_, _, _, _, _)
ReduceRight(sorted, j, acc, v, start) ==
    IF j = 0 THEN acc
    ELSE ReduceRight(sorted, j - 1, Wrap(acc, sorted[j], j, v, start), v, start)

TextNode(v) == [tag |-> "text", text |-> v]

\* an entry of res: the node and the slice bounds it was cut at
Entry(from, to, node) == [from |-> from, to |-> to, node |-> node]

\* sorted lists of non-overlapping, non-empty ranges inside [from, len]
RECURSIVE RangeSeqs(_, _)
RangeSeqs(from, len) ==
    {<<>>} \cup
    UNION {UNION {{<<<<s, e>>>> \o rest : rest \in RangeSeqs(e, len)} :
                  e \in (s + 1)..len} : s \in from..(len - 1)}

RInit ==
    /\ \E n \in 0..MaxLen : value = SubSeq(Alphabet, 1, n)
    /\ \E n \in 0..MaxMatchers :
          /\ matchers \in [1..n -> 1..MaxMatchers]
          /\ \A k \in 1..n : \/ matchers[k] = k
                               \/ \E m \in 1..(k - 1) : matchers[k] = matchers[m]
          /\ ranges \in [1..n -> RangeSeqs(0, Len(value))]
          /\ global = [k \in 1..n |-> TRUE]
    /\ found = ranges
    /\ indexes = SortAsc(Reduced.indexSet)
    /\ startToStyleMap = Reduced.startToStyleMap
    /\ endToStyleMap = Reduced.endToStyleMap
    /\ rpc = "loop"
    /\ i = 1
    /\ prevEnd = 0
    /\ activeStyles = <<>>
    /\ res = <<>>

\* one iteration of `for (let i = 0; i < indexes.length; i++)`
SweepStep ==
    /\ rpc = "loop"
    /\ i <= Len(indexes)
    /\ LET start == indexes[i]
           end == EndOf(i)
       IN IF start = end
          THEN /\ i' = i + 1
               /\ UNCHANGED <<prevEnd, activeStyles, res>>
          ELSE LET headValue == HeadValue(prevEnd, start)
                   res1 == IF headValue # <<>>
                           THEN Append(res, Entry(prevEnd, start, TextNode(headValue)))
                           ELSE res
                   startStyles == startToStyleMap[start]
                   endStyles == endToStyleMap[end]
                   active1 == AddStyles(activeStyles, startStyles)
                   v == Slice(value, start, end)
                   sortedStyles == SortStyles(active1)
                   node == ReduceRight(sortedStyles, Len(sortedStyles),
                                       TextNode(v), v, start)
               IN /\ res' = Append(res1, Entry(start, end, node))
                  /\ activeStyles' = DeleteStyles(active1, endStyles)
                  /\ prevEnd' = end
                  /\ i' = i + 1
    /\ UNCHANGED <<value, matchers, global, found, ranges, indexes, startToStyleMap,
                   endToStyleMap, rpc, svars>>

TailValueMutant(pe) == <<>>

\* const tailValue = value.slice(prevEnd)
TailValue(pe) == Slice(value, pe, Len(value))

\* the loop condition fails: const tailValue = value.slice(prevEnd); ...; return res
Finish ==
    /\ rpc = "loop"
    /\ i > Len(indexes)
    /\ LET tailValue == TailValue(prevEnd)
       IN res' = IF tailValue # <<>>
                 THEN Append(res, Entry(prevEnd, Len(value), TextNode(tailValue)))
                 ELSE res
    /\ rpc' = "done"
    /\ UNCHANGED <<value, matchers, global, found, ranges, indexes, startToStyleMap,
                   endToStyleMap, i, prevEnd, activeStyles, svars>>

\* =============================================================== store ==

\* compositionEvent.data.length
DataLength == Len(compositionEvent[1])

\* the texts an IME can report as CompositionEvent.data
CompositionData == {[k \in 1..n |-> "x"] : n \in 0..MaxCompLen}

_getSelectionStartNoGuard ==
    IF compositionEvent # <<>> THEN Min(rawStart, rawEnd - DataLength)
    ELSE IF ~el THEN Null
    ELSE rawStart

_getSelectionStart ==
    IF ~el THEN Null
    ELSE IF compositionEvent = <<>> THEN rawStart
    ELSE Min(rawStart, rawEnd - DataLength)

_getSelectionEndUnclamped ==
    IF ~el THEN Null
    ELSE IF compositionEvent = <<>> THEN rawEnd
    ELSE rawStart + DataLength

_getSelectionEndMutant ==
    IF ~el THEN Null
    ELSE IF compositionEvent = <<>> THEN rawEnd
    ELSE Max(rawStart, rawEnd - DataLength)

_getSelectionEnd ==
    IF ~el THEN Null
    ELSE IF compositionEvent = <<>> THEN rawEnd
    ELSE Min(rawEnd, rawStart + DataLength)

getSelectionMutant ==
    [heap |-> Append(heap, <<_getSelectionStart, _getSelectionEnd>>),
     prevSelection |-> Len(heap) + 1]

\* getSelection(): the heap and prevSelection after the call; the array
\* returned is the one prevSelection then refers to
getSelection ==
    LET selectionStart == _getSelectionStart
        selectionEnd == _getSelectionEnd
    IN IF heap[prevSelection][1] = selectionStart
          /\ heap[prevSelection][2] = selectionEnd
       THEN [heap |-> heap, prevSelection |-> prevSelection]
       ELSE [heap |-> Append(heap, <<selectionStart, selectionEnd>>),
             prevSelection |-> Len(heap) + 1]

\* getSelection() stays within the arrays the model can hold
CanGetSelection == Len(getSelection.heap) <= MaxSnapshots

onSelectionUpdateAttached(prev, range) == IF ~el THEN 0 ELSE range

onSelectionUpdateMutant(prev, range) == IF range = prev THEN 0 ELSE range

\* the argument onSelectionUpdate is called with; 0 stands for no call
onSelectionUpdate(prev, range) == range

_setCompositionKeep(event) ==
    [compositionEvent |-> IF event = <<>> THEN compositionEvent ELSE event,
     timers |-> timers]

_setCompositionMutant(event) ==
    [compositionEvent |-> event,
     timers |-> IF event = <<>> THEN timers + 1 ELSE timers]

\* _setComposition(event): the composition state and the pending timers after it
_setComposition(event) == [compositionEvent |-> event, timers |-> timers]

SInit ==
    /\ el = FALSE
    /\ rawStart = 0
    /\ rawEnd = 0
    /\ compositionEvent = <<>>
    /\ heap = << <<Null, Null>> >>
    /\ prevSelection = 1
    /\ timers = 0
    /\ lastCall = 0
    /\ lastEvent = "init"
    /\ isComposing = FALSE
    /\ keyCode = 0
    /\ listeners = 0

\* React attaches the textarea to textAreaRef
Mount ==
    /\ ~el
    /\ el' = TRUE
    /\ rawStart' = 0
    /\ rawEnd' = 0
    /\ lastCall' = 0
    /\ lastEvent' = "mount"
    /\ isComposing' = FALSE
    /\ keyCode' = 0
    /\ UNCHANGED <<compositionEvent, heap, prevSelection, timers, listeners, rvars>>

\* React detaches it; callbacks already scheduled stay scheduled
Unmount ==
    /\ el
    /\ el' = FALSE
    /\ rawStart' = 0
    /\ rawEnd' = 0
    /\ lastCall' = 0
    /\ lastEvent' = "unmount"
    /\ isComposing' = FALSE
    /\ keyCode' = 0
    /\ UNCHANGED <<compositionEvent, heap, prevSelection, timers, listeners, rvars>>

\* the host moves its selection (typing, IME, pointer)
Select ==
    /\ el
    /\ \E s \in 0..MaxPos : \E e \in s..MaxPos :
          /\ <<s, e>> # <<rawStart, rawEnd>>
          /\ rawStart' = s
          /\ rawEnd' = e
    /\ lastCall' = 0
    /\ lastEvent' = "select"
    /\ keyCode' = 0
    /\ UNCHANGED <<isComposing, el, compositionEvent, heap, prevSelection, timers, listeners, rvars>>

_updateSeletionTwice == timers + 2

\* _updateSeletion(): setTimeout(() => onSelectionUpdate(getSelection()))
_updateSeletion == timers + 1

onInput ==
    /\ el
    /\ timers < MaxPending
    /\ timers' = _updateSeletion
    /\ lastCall' = 0
    /\ lastEvent' = "input"
    /\ keyCode' = 0
    /\ UNCHANGED <<isComposing, el, rawStart, rawEnd, compositionEvent, heap, prevSelection, listeners, rvars>>

onCompositionStart ==
    /\ el
    /\ \E data \in CompositionData :
          /\ _setComposition(<<data>>).timers <= MaxPending
          /\ compositionEvent' = _setComposition(<<data>>).compositionEvent
          /\ timers' = _setComposition(<<data>>).timers
    /\ lastCall' = 0
    /\ lastEvent' = "compositionstart"
    /\ isComposing' = TRUE
    /\ keyCode' = 0
    /\ UNCHANGED <<el, rawStart, rawEnd, heap, prevSelection, listeners, rvars>>

onCompositionUpdate ==
    /\ el
    /\ isComposing
    /\ \E data \in CompositionData :
          /\ _setComposition(<<data>>).timers <= MaxPending
          /\ compositionEvent' = _setComposition(<<data>>).compositionEvent
          /\ timers' = _setComposition(<<data>>).timers
    /\ lastCall' = 0
    /\ lastEvent' = "compositionupdate"
    /\ keyCode' = 0
    /\ UNCHANGED <<isComposing, el, rawStart, rawEnd, heap, prevSelection, listeners, rvars>>

onCompositionEnd ==
    /\ el
    /\ isComposing
    /\ _setComposition(<<>>).timers <= MaxPending
    /\ compositionEvent' = _setComposition(<<>>).compositionEvent
    /\ timers' = _setComposition(<<>>).timers
    /\ lastCall' = 0
    /\ lastEvent' = "compositionend"
    /\ isComposing' = FALSE
    /\ keyCode' = 0
    /\ UNCHANGED <<el, rawStart, rawEnd, heap, prevSelection, listeners, rvars>>

\* the key codes a keydown carries: Enter and the IME sentinel
KeyCodes == {13, 229}

IgnoresKeyDownMutant(composing, code) == composing

\* if (e.nativeEvent.isComposing || e.nativeEvent.keyCode === 229) return;
IgnoresKeyDown(composing, code) == composing \/ code = 229

onKeyDown ==
    /\ el
    /\ \E code \in KeyCodes :
          /\ keyCode' = code
          /\ IF IgnoresKeyDown(isComposing, code)
             THEN timers' = timers
             ELSE /\ timers < MaxPending
                  /\ timers' = _updateSeletion
    /\ lastCall' = 0
    /\ lastEvent' = "keydown"
    /\ UNCHANGED <<isComposing, el, rawStart, rawEnd, compositionEvent, heap, prevSelection, listeners, rvars>>

addEventListenerOnce(n) == IF n = 0 THEN 1 ELSE n

\* document.addEventListener(MOUSE_UP, mouseup): mouseup is a closure created
\* by this call of the handler, so it is a listener the document does not hold yet
addEventListener(n) == n + 1

\* onMouseDown: one update() and one more mouseup listener on the document
onMouseDown ==
    /\ el
    /\ timers < MaxPending
    /\ listeners < MaxListeners
    /\ timers' = _updateSeletion
    /\ listeners' = addEventListener(listeners)
    /\ lastCall' = 0
    /\ lastEvent' = "mousedown"
    /\ keyCode' = 0
    /\ UNCHANGED <<isComposing, el, rawStart, rawEnd, compositionEvent, heap, prevSelection, rvars>>

\* the document dispatches mouseup: every registered mouseup closure runs,
\* calls update() and removes itself; the document outlives the textarea
DocumentMouseUp ==
    /\ timers + listeners <= MaxPending
    /\ timers' = timers + listeners
    /\ listeners' = 0
    /\ lastCall' = 0
    /\ lastEvent' = "mouseup"
    /\ keyCode' = 0
    /\ UNCHANGED <<isComposing, el, rawStart, rawEnd, compositionEvent, heap, prevSelection, rvars>>

\* ---- RichTextareaHandle: the Proxy built by useImperativeHandle
\* the members the overrides object defines
OverrideProps == {"selectionStart", "selectionEnd", "setSelectionRange", "setRangeText"}

\* members read through the handle
HandleProps == OverrideProps \cup {"value", "focus"}

\* overrides.selectionStart / overrides.selectionEnd (the getters)
OverrideNumber(prop) ==
    LET sel == IF prop = "selectionStart" THEN _getSelectionStart ELSE _getSelectionEnd
    IN IF sel = Null THEN 0 ELSE sel

\* target[prop] for the two offsets
TargetNumber(prop) == IF prop = "selectionStart" THEN rawStart ELSE rawEnd

\* if ((overrides as any)[prop]): a getter's number is truthy unless 0, a
\* method is truthy, a member overrides lacks is undefined
OverridesTruthy(prop) ==
    IF prop \in {"selectionStart", "selectionEnd"} THEN OverrideNumber(prop) # 0
    ELSE prop \in OverrideProps

\* Proxy get(target, prop): the object the member is taken from
ProxyGet(prop) == IF OverridesTruthy(prop) THEN "overrides" ELSE "target"

\* handle.selectionStart / handle.selectionEnd
HandleNumber(prop) ==
    IF ProxyGet(prop) = "overrides" THEN OverrideNumber(prop) ELSE TargetNumber(prop)

\* a scheduled callback runs: onSelectionUpdate(getSelection())
TimerFire ==
    /\ timers > 0
    /\ CanGetSelection
    /\ timers' = timers - 1
    /\ heap' = getSelection.heap
    /\ prevSelection' = getSelection.prevSelection
    /\ lastCall' = onSelectionUpdate(prevSelection, getSelection.prevSelection)
    /\ lastEvent' = "timer"
    /\ keyCode' = 0
    /\ UNCHANGED <<isComposing, el, rawStart, rawEnd, compositionEvent, listeners, rvars>>

\* a render reads the snapshot: useSyncExternalStore calls getSelection()
GetSnapshot ==
    /\ CanGetSelection
    /\ heap' = getSelection.heap
    /\ prevSelection' = getSelection.prevSelection
    /\ lastCall' = 0
    /\ lastEvent' = "read"
    /\ keyCode' = 0
    /\ UNCHANGED <<isComposing, el, rawStart, rawEnd, compositionEvent, timers, listeners, rvars>>

\* the renderer is idle while the store is explored
RIdle ==
    /\ value = <<>>
    /\ matchers = <<>>
    /\ global = <<>>
    /\ found = <<>>
    /\ ranges = <<>>
    /\ indexes = <<>>
    /\ startToStyleMap = <<>>
    /\ endToStyleMap = <<>>
    /\ rpc = "done"
    /\ i = 1
    /\ prevEnd = 0
    /\ activeStyles = <<>>
    /\ res = <<>>

Init == SInit /\ RIdle

Next ==
    \/ Mount
    \/ Unmount
    \/ Select
    \/ onInput
    \/ onCompositionStart
    \/ onCompositionUpdate
    \/ onCompositionEnd
    \/ onKeyDown
    \/ onMouseDown
    \/ DocumentMouseUp
    \/ TimerFire
    \/ GetSnapshot

Spec == Init /\ [][Next]_vars

RenderInit == RInit /\ SInit

RenderNext == SweepStep \/ Finish

RenderSpec == RenderInit /\ [][RenderNext]_vars

\* ======================================== configuration and pattern scan ==

\* the matches a global scan of a text of length len can report, in scan
\* order: leftmost first, the next scan resuming at the previous match's end,
\* one past it after a zero-length match
RECURSIVE RawSeqs(_, _)
RawSeqs(from, len) ==
    {<<>>} \cup
    UNION {UNION {{<<<<s, e>>>> \o rest :
                      rest \in RawSeqs(IF e = s THEN s + 1 ELSE e, len)} :
                  e \in s..len} : s \in from..len}

ExecRegKeep(raw) == raw

\* execReg(matcher, value) followed by .map(m => [m.index, m.index + m[0].length]):
\* the scan's matches as ranges, the zero-length ones discarded
ExecReg(raw) == SelectSeq(raw, LAMBDA m : m[1] < m[2])

createRegexRendererChecked(flags) ==
    IF \A k \in 1..Len(flags) : flags[k] THEN "created" ELSE "rejected"

\* createRegexRenderer(matchers): returns the renderer closure, whatever the
\* flags of the patterns
createRegexRenderer(flags) == "created"

ExecInit ==
    /\ SInit
    /\ value = <<>>
    /\ matchers = <<>>
    /\ global = <<>>
    /\ found = <<>>
    /\ ranges = <<>>
    /\ indexes = <<>>
    /\ startToStyleMap = <<>>
    /\ endToStyleMap = <<>>
    /\ rpc = "config"
    /\ i = 1
    /\ prevEnd = 0
    /\ activeStyles = <<>>
    /\ res = <<>>

\* the decorations of the configured matchers: one CSSProperties object and
\* one render function
ScanStyles == {1, 2}

\* the caller configures a matcher set
Create ==
    /\ rpc = "config"
    /\ \E n \in 0..MaxScanMatchers :
          /\ matchers' \in [1..n -> ScanStyles]
          /\ global' \in [1..n -> BOOLEAN]
    /\ rpc' = createRegexRenderer(global')
    /\ UNCHANGED <<value, found, ranges, indexes, startToStyleMap, endToStyleMap,
                   i, prevEnd, activeStyles, res, svars>>

\* the renderer is called with a text: the scans of all patterns, the reduce
\* and the sort, up to the loop. The patterns are global, as callers must
\* supply them.
Scan ==
    /\ rpc = "created"
    /\ \A k \in 1..Len(global) : global[k]
    /\ UNCHANGED <<matchers, global>>
    /\ \E n \in 0..MaxScanLen :
          /\ value' = SubSeq(Alphabet, 1, n)
          /\ found' \in [1..Len(matchers) -> RawSeqs(0, n)]
    /\ ranges' = [k \in 1..Len(matchers) |-> ExecReg(found'[k])]
    /\ indexes' = SortAsc(Reduced.indexSet)'
    /\ startToStyleMap' = Reduced.startToStyleMap'
    /\ endToStyleMap' = Reduced.endToStyleMap'
    /\ rpc' = "loop"
    /\ i' = 1
    /\ prevEnd' = 0
    /\ activeStyles' = <<>>
    /\ res' = <<>>
    /\ UNCHANGED svars

ExecNext == Create \/ Scan \/ SweepStep \/ Finish

ExecSpec == ExecInit /\ [][ExecNext]_vars

\* ------------------------------------------------ reading the output ----

\* the text a node renders
RECURSIVE TextOf(_)
TextOf(node) == IF node.tag = "text" THEN node.text ELSE TextOf(node.children)

\* the decorations around a node's text, outermost first
RECURSIVE Wrappers(_)
Wrappers(node) ==
    IF node.tag = "text" THEN <<>>
    ELSE <<node.style>> \o Wrappers(node.children)

\* the keys of the wrappers around a node's text, outermost first
RECURSIVE Keys(_)
Keys(node) ==
    IF node.tag = "text" THEN <<>>
    ELSE <<node.key>> \o Keys(node.children)

\* the texts of res[1..k], concatenated in output order
RECURSIVE Concat(_)
Concat(k) == IF k = 0 THEN <<>> ELSE Concat(k - 1) \o TextOf(res[k].node)

Segs == 1..Len(res)

Decorated(k) == Wrappers(res[k].node) # <<>>

\* matcher m has a range that contains the slice of res[k]
Covers(m, k) ==
    \E n \in 1..Len(ranges[m]) :
        ranges[m][n][1] <= res[k].from /\ res[k].to <= ranges[m][n][2]

\* ---------------------------------------------------------------- C2 ----
\* C2 (as stated): in every segment with two or more decorations the
\* earlier-declared decoration is outside the later-declared one.
C2_EarlierOutermost ==
    rpc = "done" =>
        \A k \in Segs :
            LET w == Wrappers(res[k].node)
            IN \A a, b \in 1..Len(w) :
                   a < b => FindIndex(w[a]) < FindIndex(w[b])

\* C2 (amended): in every segment with two or more decorations the
\* later-declared decoration is outermost and the earlier-declared one
\* innermost, whatever the order and the lengths of the matches.
C2_LaterOutermost ==
    rpc = "done" =>
        \A k \in Segs :
            LET w == Wrappers(res[k].node)
            IN \A a, b \in 1..Len(w) :
                   a < b => FindIndex(w[a]) > FindIndex(w[b])

\* A matches [0,2), B matches [1,3): segment [1,2) is B outside A
C2_Witness ==
    /\ rpc = "done"
    /\ Len(matchers) = 2
    /\ matchers[1] # matchers[2]
    /\ ranges[1] = << <<0, 2>> >>
    /\ ranges[2] = << <<1, 3>> >>
    /\ \E k \in Segs :
          /\ res[k].from = 1
          /\ res[k].to = 2
          /\ Wrappers(res[k].node) = <<matchers[2], matchers[1]>>

\* ---------------------------------------------------------------- C3 ----
\* C3: the texts of the returned nodes, concatenated in output order, are
\* exactly the original text.
C3_Coverage == rpc = "done" => Concat(Len(res)) = value

\* a leading unmatched span, a match and a trailing unmatched span
C3_Witness ==
    /\ rpc = "done"
    /\ Len(value) = 3
    /\ Len(res) = 3
    /\ ~Decorated(1) /\ Decorated(2) /\ ~Decorated(3)

\* ---------------------------------------------------------------- C4 ----
\* C4: the segments are non-empty, start at strictly increasing offsets,
\* are contiguous, and every offset of the text lies in exactly one.
C4_Partition ==
    rpc = "done" =>
        /\ \A k \in Segs :
              /\ 0 <= res[k].from
              /\ res[k].from < res[k].to
              /\ res[k].to <= Len(value)
              /\ Len(TextOf(res[k].node)) = res[k].to - res[k].from
        /\ \A k \in Segs : k < Len(res) =>
              /\ res[k].from < res[k + 1].from
              /\ res[k].to = res[k + 1].from
        /\ \A o \in 0..(Len(value) - 1) :
              Cardinality({k \in Segs : res[k].from <= o /\ o < res[k].to}) = 1

\* overlapping matches of two matchers cut the text into three segments
C4_Witness ==
    /\ rpc = "done"
    /\ Len(value) = 3
    /\ Len(res) = 3
    /\ Len(Wrappers(res[2].node)) = 2

\* ---------------------------------------------------------------- C5 ----
\* C5: with a single matcher, a segment carries the matcher's decoration
\* if and only if the segment lies inside one of the matcher's ranges.
C5_ActiveSet ==
    (rpc = "done" /\ Len(matchers) = 1) =>
        \A k \in Segs :
            /\ Covers(1, k) => Wrappers(res[k].node) = <<matchers[1]>>
            /\ ~Covers(1, k) => Wrappers(res[k].node) = <<>>

\* two adjacent ranges followed by an unmatched span
C5_Witness ==
    /\ rpc = "done"
    /\ Len(matchers) = 1
    /\ ranges[1] = << <<0, 1>>, <<1, 2>> >>
    /\ Len(value) = 3
    /\ Len(res) = 3
    /\ Decorated(1) /\ Decorated(2) /\ ~Decorated(3)

\* ---------------------------------------------------------------- C1 ----
Composing == el /\ compositionEvent # <<>>

\* C1 (as stated): while a composition of length L is active the store
\* reports start = rawStart and end = max(rawStart, rawEnd - L).  Stated for
\* the compositions whose text fits before the raw end offset (L <= rawEnd).
C1_SpecFormula ==
    (Composing /\ DataLength <= rawEnd) =>
        /\ _getSelectionStart = rawStart
        /\ _getSelectionEnd = Max(rawStart, rawEnd - DataLength)

\* C1 (amended): while a composition of length L is active the store
\* reports start = min(rawStart, rawEnd - L) and end = min(rawEnd,
\* rawStart + L), after compositionstart and after every compositionupdate.
C1_CodeFormula ==
    Composing =>
        /\ _getSelectionStart = Min(rawStart, rawEnd - DataLength)
        /\ _getSelectionEnd = Min(rawEnd, rawStart + DataLength)
        /\ (rawStart = 0 /\ rawEnd = 1 /\ DataLength = 1) =>
               (_getSelectionStart = 0 /\ _getSelectionEnd = 1)

\* raw [0,1] with L = 1 right after a compositionupdate: reported as [0,1]
C1_Witness ==
    /\ lastEvent = "compositionupdate"
    /\ el
    /\ rawStart = 0
    /\ rawEnd = 1
    /\ DataLength = 1
    /\ _getSelectionStart = 0
    /\ _getSelectionEnd = 1

\* ---------------------------------------------------------------- C6 ----
\* C6: for every raw selection and every composition length the reported
\* offsets are never negative and never greater than the raw end offset.
C6_InRange ==
    el =>
        /\ 0 <= _getSelectionStart
        /\ _getSelectionStart <= rawEnd
        /\ 0 <= _getSelectionEnd
        /\ _getSelectionEnd <= rawEnd

\* ---------------------------------------------------------------- C7 ----
\* C7: once setComposition(null) has run, every read returns the host's raw
\* selectionStart and selectionEnd, whatever the composition length was, and
\* a snapshot taken then holds the raw offsets.
C7_RawAfterEnd ==
    (el /\ (lastEvent = "compositionend" \/ compositionEvent = <<>>)) =>
        /\ _getSelectionStart = rawStart
        /\ _getSelectionEnd = rawEnd
        /\ getSelection.heap[getSelection.prevSelection] = <<rawStart, rawEnd>>

\* composition just ended with the host at [1,1] while the last snapshot
\* still holds a compensated value
C7_Witness ==
    /\ lastEvent = "compositionend"
    /\ el
    /\ rawStart = 1
    /\ rawEnd = 1
    /\ heap[prevSelection] = <<0, 1>>
    /\ _getSelectionStart = 1
    /\ _getSelectionEnd = 1

\* ---------------------------------------------------------------- C8 ----
CompositionCleared == compositionEvent # <<>> /\ compositionEvent' = <<>>

\* C8 (as stated): setComposition(null) clears the composition state and
\* triggers an update().
C8_EndTriggersUpdate ==
    [][CompositionCleared => timers' = timers + 1]_vars

\* C8 (amended): setComposition(null) only clears the composition state: it
\* schedules no update(), publishes no snapshot and calls no subscriber.
C8_EndOnlyClears ==
    [][CompositionCleared =>
          /\ timers' = timers
          /\ lastCall' = 0
          /\ heap' = heap
          /\ prevSelection' = prevSelection]_vars

\* composition has ended, nothing is scheduled and the published snapshot
\* still holds the compensated selection
C8_Witness ==
    /\ lastEvent = "compositionend"
    /\ el
    /\ timers = 0
    /\ rawStart = 1
    /\ rawEnd = 1
    /\ heap[prevSelection] = <<0, 1>>

\* ---------------------------------------------------------------- C9 ----
\* a scheduled update() callback runs in this step
UpdateRuns == timers' = timers - 1

\* C9 (as stated): update() notifies the subscriber only when it publishes
\* a new snapshot.
C9_NotifyOnlyOnChange ==
    [][lastCall' # 0 => prevSelection' # prevSelection]_vars

\* C9 (amended): every update() calls the subscriber once with the current
\* snapshot; the snapshot is a new one exactly when the offsets differ by
\* value from the last published one, and the previous object otherwise.
C9_AlwaysNotifies ==
    [][UpdateRuns =>
          /\ lastCall' # 0
          /\ lastCall' = prevSelection'
          /\ heap'[lastCall'] = <<_getSelectionStart, _getSelectionEnd>>
          /\ (prevSelection' # prevSelection) <=>
                 (heap[prevSelection] # <<_getSelectionStart, _getSelectionEnd>>)]_vars

\* an update() has just called the subscriber with a published snapshot
\* while another update() is still pending
C9_Witness ==
    /\ lastEvent = "timer"
    /\ lastCall = prevSelection
    /\ Len(heap) >= 2
    /\ timers > 0
    /\ el

\* --------------------------------------------------------------- C10 ----
\* getSelection() is called in this step
Reads == lastEvent' = "timer" \/ lastEvent' = "read"

\* C10: a read returns the previous snapshot object when the compensated
\* offsets equal its contents and a newly created one exactly when they
\* differ; no snapshot object is ever modified.
C10_StableSnapshot ==
    [][/\ \A id \in DOMAIN heap : id \in DOMAIN heap' /\ heap'[id] = heap[id]
       /\ Reads =>
             /\ heap'[prevSelection'] = <<_getSelectionStart, _getSelectionEnd>>
             /\ (heap[prevSelection] = <<_getSelectionStart, _getSelectionEnd>>) =>
                    (prevSelection' = prevSelection /\ heap' = heap)
             /\ (heap[prevSelection] # <<_getSelectionStart, _getSelectionEnd>>) =>
                    (prevSelection' \notin DOMAIN heap)
       /\ ~Reads => (prevSelection' = prevSelection /\ heap' = heap)]_vars

\* a read during a composition after two snapshots were created
C10_Witness ==
    /\ lastEvent = "read"
    /\ Len(heap) = 3
    /\ Composing
    /\ heap[prevSelection] = <<_getSelectionStart, _getSelectionEnd>>

\* --------------------------------------------------------------- C11 ----
\* C11: while the host is detached both reported offsets are null, with or
\* without an active composition, and a snapshot taken then is [null, null].
C11_DetachedNull ==
    ~el =>
        /\ _getSelectionStart = Null
        /\ _getSelectionEnd = Null
        /\ getSelection.heap[getSelection.prevSelection] = <<Null, Null>>

\* the host was detached in the middle of a composition
C11_Witness ==
    /\ ~el
    /\ lastEvent = "unmount"
    /\ compositionEvent # <<>>
    /\ DataLength = 1
    /\ _getSelectionStart = Null
    /\ _getSelectionEnd = Null

\* --------------------------------------------------------------- C12 ----
\* C12 (as stated): an update() that runs while the host is detached
\* publishes no snapshot and calls no subscriber.
C12_DetachedNoOp ==
    [][(UpdateRuns /\ ~el) =>
          /\ lastCall' = 0
          /\ heap' = heap
          /\ prevSelection' = prevSelection]_vars

\* C12 (amended): an update() that runs while the host is detached reads
\* [null, null], publishes it as a new snapshot when the last published one
\* held offsets, and calls the subscriber with the snapshot in either case.
C12_DetachedPublishesNull ==
    [][(UpdateRuns /\ ~el) =>
          /\ lastCall' # 0
          /\ lastCall' = prevSelection'
          /\ heap'[prevSelection'] = <<Null, Null>>
          /\ (prevSelection' # prevSelection) <=>
                 (heap[prevSelection] # <<Null, Null>>)]_vars

\* an update scheduled while the host was attached ran after the detachment
\* and published [null, null] over a snapshot with offsets
C12_Witness ==
    /\ lastEvent = "timer"
    /\ ~el
    /\ Len(heap) = 3
    /\ heap[2] # <<Null, Null>>
    /\ heap[3] = <<Null, Null>>
    /\ lastCall = 3

\* --------------------------------------------------------------- C13 ----
\* C13: a keydown that arrives while the platform is composing, or that
\* carries key code 229, schedules no update() and publishes nothing.
C13_KeyDownIgnored ==
    [][(lastEvent' = "keydown" /\ (isComposing \/ keyCode' = 229)) =>
          /\ timers' = timers
          /\ lastCall' = 0
          /\ heap' = heap
          /\ prevSelection' = prevSelection]_vars

\* a keydown with key code 229 was handled after the composition had ended
\* and nothing is scheduled
C13_Witness ==
    /\ lastEvent = "keydown"
    /\ keyCode = 229
    /\ ~isComposing
    /\ compositionEvent = <<>>
    /\ Len(heap) = 2
    /\ timers = 0

\* ------------------------------------------------------------------ C14
\* C14: reading selectionStart or selectionEnd through the handle returns the
\* store's composition-compensated offset (0 when the store reports null),
\* never the raw value of the textarea; every member other than the four
\* overridden ones is forwarded to the textarea.
C14_HandleCompensated ==
    /\ \A prop \in {"selectionStart", "selectionEnd"} :
          HandleNumber(prop) = OverrideNumber(prop)
    /\ \A prop \in HandleProps \ OverrideProps : ProxyGet(prop) = "target"

\* ------------------------------------------------------------------ C15
\* C15: every decorated segment carries exactly one key, on its outermost
\* wrapper, equal to the segment's start offset written as a string; the
\* wrappers inside carry none, and no two decorated segments share a key.
C15_OneKeyPerSegment ==
    /\ \A k \in 1..Len(res) :
          Decorated(k) =>
             /\ Keys(res[k].node)[1] = ToString(res[k].from)
             /\ \A n \in 2..Len(Keys(res[k].node)) :
                   Keys(res[k].node)[n] = "undefined"
    /\ \A k, m \in 1..Len(res) :
          (Decorated(k) /\ Decorated(m) /\ k # m) =>
             Keys(res[k].node)[1] # Keys(res[m].node)[1]

\* a finished render with a doubly wrapped segment and a second decorated one
C15_Witness ==
    /\ rpc = "done"
    /\ \E k, m \in 1..Len(res) :
          /\ k # m
          /\ Len(Keys(res[k].node)) = 2
          /\ Keys(res[k].node) = <<ToString(res[k].from), "undefined">>
          /\ Decorated(m)
          /\ res[m].from > 0

\* ------------------------------------------------------------------ C17
\* no matcher of the render has a match
NoMatches == \A k \in 1..Len(ranges) : ranges[k] = <<>>

\* the styles of the matchers that have at least one match
MatchedStyles == {matchers[k] : k \in {n \in 1..Len(matchers) : ranges[n] # <<>>}}

\* C17 as stated: with no match anywhere the render is exactly one segment,
\* the whole text, undecorated, for every text.
C17_OneSegment ==
    (rpc = "done" /\ NoMatches) =>
       /\ Len(res) = 1
       /\ res[1] = Entry(0, Len(value), TextNode(value))

\* C17 (amended): with no match anywhere a non-empty text renders as exactly
\* one segment, the whole text, undecorated, and the empty text as no segment
\* at all; in every render the breakpoints are starts and ends of matches, and
\* only the styles of matchers that matched wrap a segment.
C17_OneSegmentUnlessEmpty ==
    /\ (rpc = "done" /\ NoMatches) =>
          /\ value # <<>> => res = <<Entry(0, Len(value), TextNode(value))>>
          /\ value = <<>> => res = <<>>
    /\ \A x \in 1..Len(indexes) :
          \E k \in 1..Len(ranges) : \E r \in 1..Len(ranges[k]) :
             indexes[x] \in {ranges[k][r][1], ranges[k][r][2]}
    /\ \A k \in 1..Len(res) : \A w \in 1..Len(Wrappers(res[k].node)) :
          Wrappers(res[k].node)[w] \in MatchedStyles

\* a finished render of a text of two or more characters under two matchers,
\* neither with a match
C17_Witness ==
    /\ rpc = "done"
    /\ Len(matchers) = 2
    /\ NoMatches
    /\ Len(value) >= 2
    /\ res = <<Entry(0, Len(value), TextNode(value))>>

\* ------------------------------------------------------------------ C19
\* the compensated host selection
Compensated == <<_getSelectionStart, _getSelectionEnd>>

\* the last published snapshot
Published == heap[prevSelection]

\* the host selection and the composition state
HostState == <<el, rawStart, rawEnd, compositionEvent>>

\* the update() calls of a step that makes any: one per mouseup listener the
\* document runs, one in every other handler
UpdateCalls == IF lastEvent' = "mouseup" THEN listeners ELSE 1

\* C19: a step that calls update() schedules exactly one deferred read per
\* call and reads or publishes nothing itself; a deferred read publishes the
\* compensated host selection of the moment it fires; and a published snapshot
\* that equals the compensated host selection stays so until the host changes.
C19_DeferredRead ==
    [][/\ timers' > timers =>
             /\ timers' = timers + UpdateCalls
             /\ heap' = heap
             /\ prevSelection' = prevSelection
             /\ lastCall' = 0
       /\ UpdateRuns =>
             /\ HostState' = HostState
             /\ Published' = Compensated
             /\ Published' = Compensated'
       /\ (Published = Compensated /\ HostState' = HostState) =>
             Published' = Compensated']_vars

\* the last of the pending reads has just fired during a composition and
\* published a third snapshot, the compensated [0,1] of the raw [1,1]
C19_Witness ==
    /\ lastEvent = "timer"
    /\ timers = 0
    /\ isComposing
    /\ compositionEvent # <<>>
    /\ DataLength = 1
    /\ rawStart = 1
    /\ rawEnd = 1
    /\ Len(heap) = 3
    /\ lastCall = 3
    /\ Published = <<0, 1>>

\* ------------------------------------------------------------------ C20
\* the set of decorations around segment k
ActiveSet(k) == {Wrappers(res[k].node)[w] : w \in 1..Len(Wrappers(res[k].node))}

\* the breakpoints together with 0 and the length of the text
Cuts == {indexes[x] : x \in 1..Len(indexes)} \cup {0, Len(value)}

\* no two matchers share a decoration
DistinctStyles ==
    \A k, m \in 1..Len(matchers) : k # m => matchers[k] # matchers[m]

\* C20 as stated: no two consecutive segments of a render carry the same set
\* of active matchers.
C20_Maximal ==
    \A k \in 1..(Len(res) - 1) : ActiveSet(k) # ActiveSet(k + 1)

\* C20 (amended): the segments are the non-empty intervals between
\* consecutive cuts (the breakpoints, 0 and the length of the text): each
\* segment starts and ends at a cut and has no cut strictly inside, and when
\* the matchers' decorations are pairwise distinct two consecutive undecorated
\* segments never occur; two consecutive segments may carry the same
\* non-empty active set, as with adjacent matches of one matcher.
C20_BetweenCuts ==
    /\ \A k \in 1..Len(res) :
          /\ res[k].from < res[k].to
          /\ res[k].from \in Cuts
          /\ res[k].to \in Cuts
          /\ \A x \in Cuts : ~(res[k].from < x /\ x < res[k].to)
    /\ DistinctStyles =>
          \A k \in 1..(Len(res) - 1) :
             ~(ActiveSet(k) = {} /\ ActiveSet(k + 1) = {})

\* a finished render of one matcher with the adjacent matches [0,1) and
\* [1,2): two consecutive segments with the same active set
C20_Witness ==
    /\ rpc = "done"
    /\ Len(matchers) = 1
    /\ ranges[1] = << <<0, 1>>, <<1, 2>> >>
    /\ Len(res) >= 2
    /\ res[1].to = 1
    /\ res[2].from = 1
    /\ ActiveSet(1) = {matchers[1]}
    /\ ActiveSet(2) = {matchers[1]}

\* ------------------------------------------------------------------ C16
\* the non-empty matches of matcher k's scan
NonEmptyFound(k) ==
    {found[k][r] : r \in {n \in 1..Len(found[k]) : found[k][n][1] < found[k][n][2]}}

\* C16: zero-length matches are discarded: the ranges the renderer works on
\* are the scan's matches without the zero-length ones, every breakpoint is
\* the start or the end of a non-empty match, and a segment carries a
\* decoration only inside a non-empty match of a matcher with that decoration.
C16_ZeroLengthDiscarded ==
    /\ \A k \in 1..Len(ranges) :
          /\ \A r \in 1..Len(ranges[k]) : ranges[k][r] \in NonEmptyFound(k)
          /\ Len(ranges[k]) = Cardinality(NonEmptyFound(k))
    /\ \A x \in 1..Len(indexes) :
          \E k \in 1..Len(found) : \E m \in NonEmptyFound(k) :
             indexes[x] \in {m[1], m[2]}
    /\ \A n \in 1..Len(res) : \A w \in 1..Len(Wrappers(res[n].node)) :
          \E k \in 1..Len(found) : \E m \in NonEmptyFound(k) :
             /\ matchers[k] = Wrappers(res[n].node)[w]
             /\ m[1] <= res[n].from
             /\ res[n].to <= m[2]

\* a finished render whose scan found a zero-length match at 0 and the
\* match [1,2): an undecorated "a" and a decorated "b"
C16_Witness ==
    /\ rpc = "done"
    /\ Len(found) = 1
    /\ found[1] = << <<0, 0>>, <<1, 2>> >>
    /\ ranges[1] = << <<1, 2>> >>
    /\ indexes = <<1, 2>>
    /\ Len(res) = 2
    /\ Wrappers(res[1].node) = <<>>
    /\ Wrappers(res[2].node) = <<matchers[1]>>

\* ------------------------------------------------------------------ C18
\* some configured pattern lacks the global flag
HasNonGlobal == \E k \in 1..Len(global) : ~global[k]

\* C18 as stated: a matcher set with a non-global pattern is rejected when it
\* is configured.
C18_RejectedAtSetup == (rpc # "config" /\ HasNonGlobal) => rpc = "rejected"

\* C18 (amended): createRegexRenderer validates nothing and returns a renderer
\* for every matcher set, with or without non-global patterns; in a render
\* all patterns are scanned before the first segment is produced.
C18_NoValidation ==
    [][/\ (rpc = "config" /\ rpc' # "config") => rpc' = "created"
       /\ found' # found => res' = <<>>]_vars

\* a renderer created from a matcher whose pattern is not global
C18_Witness ==
    /\ rpc = "created"
    /\ Len(matchers) = 1
    /\ global = <<FALSE>>

\* ------------------------------------------------------------------ C21
\* the decorations of the matchers m..1 that cover segment k, the matcher
\* declared last first
RECURSIVE CoveringStyles(_, _)
CoveringStyles(m, k) ==
    IF m = 0 THEN <<>>
    ELSE (IF Covers(m, k) THEN <<matchers[m]>> ELSE <<>>) \o CoveringStyles(m - 1, k)

\* C21: each matcher is tracked on its own: a segment carries one wrapper per
\* matcher with a range around it, each with that matcher's decoration and at
\* the nesting position of that matcher's declaration index, also when two
\* matchers are declared with the same decoration value.
C21_Independent ==
    rpc = "done" =>
        \A k \in Segs :
            Wrappers(res[k].node) = CoveringStyles(Len(matchers), k)

\* ------------------------------------------------------------------ C22
\* C22: with an attached host whose raw selection has rawStart <= rawEnd the
\* reported selection is ordered and never beyond the raw one: reported start
\* <= reported end, reported start <= rawStart, reported end <= rawEnd, in
\* every composition state; with no active composition it is the raw selection.
C22_Ordered ==
    (el /\ rawStart <= rawEnd) =>
        /\ _getSelectionStart <= _getSelectionEnd
        /\ _getSelectionStart <= rawStart
        /\ _getSelectionEnd <= rawEnd
        /\ compositionEvent = <<>> =>
              (_getSelectionStart = rawStart /\ _getSelectionEnd = rawEnd)

\* a one-character composition at the collapsed raw selection [1,1]: the
\* reported start 0 is below the raw start, the reported end is the raw end
C22_Witness ==
    /\ el
    /\ isComposing
    /\ compositionEvent # <<>>
    /\ DataLength = 1
    /\ rawStart = 1
    /\ rawEnd = 1
    /\ _getSelectionStart = 0
    /\ _getSelectionEnd = 1
    /\ lastEvent = "select"

\* ------------------------------------------------------------------ C23
\* C23: a mousedown calls update() once and registers exactly one mouseup
\* listener on the document; a document mouseup runs every registered
\* listener, each calling update() once and removing itself, so that after a
\* mouseup no listener remains and a mouseup with no listener registered calls
\* no update(), also after several mousedowns. No step reads or publishes.
C23_MouseUpListeners ==
    [][/\ lastEvent' = "mousedown" =>
             /\ timers' = timers + 1
             /\ listeners' = listeners + 1
             /\ heap' = heap
             /\ prevSelection' = prevSelection
       /\ lastEvent' = "mouseup" =>
             /\ timers' = timers + listeners
             /\ listeners' = 0
             /\ heap' = heap
             /\ prevSelection' = prevSelection
       /\ listeners' # listeners => lastEvent' \in {"mousedown", "mouseup"}]_vars

\* a mouseup has just run the listeners: none remains registered and their
\* two updates are pending
C23_Witness ==
    /\ lastEvent = "mouseup"
    /\ listeners = 0
    /\ timers = 2
    /\ el

====
